---- MODULE Spec2Model ----
(***************************************************************************)
(* A model of tp::ThreadPool (ThreadPool.h, ThreadPool.cpp) and of its     *)
(* two queues (QueueMutex.h).                                              *)
(*                                                                         *)
(* Threads of control: the worker threads started by setThread, and one    *)
(* caller thread that performs the public operations (push, pop,           *)
(* clearQueue, resize, stop) one after another.  Every step is one         *)
(* critical section of a queue mutex, one access to an atomic, or one      *)
(* critical section of the pool mutex; an operation is a chain of steps    *)
(* that worker steps interleave with.                                      *)
(***************************************************************************)
EXTENDS Integers, Sequences, FiniteSets, TLC

\* ------------------------------------------------------------------ bounds
\* Tasks submitted in one run of Spec and of LiveSpec.
MaxTasks == 2
\* Tasks submitted in one run of FixedSpec.
MaxFixedTasks == 3
\* Tasks submitted in one run of QueueSpec.
MaxQueueTasks == 4
\* Largest thread count given to the constructor or to resize.
MaxThreads == 2
\* Worker threads started in one run (constructor and growing resizes).
MaxSpawn == 3
\* Worker threads started in one run of LiveSpec.
MaxLiveSpawn == 2
\* Tasks submitted in one run of OrderSpec.
MaxOrderTasks == 3
\* Width of the sequence counter in bits (uint32_t in the source, narrowed).
SeqBits == 3

\* 2^32 in the source: the range of PrioritizedTask::sequence.
SeqMod == 2 ^ SeqBits
\* UINT32_MAX
SeqMax == SeqMod - 1
\* 0x80000000
HalfRange == 2 ^ (SeqBits - 1)

\* The priorities a caller passes to push(int priority, ...).
Priorities == {1, 5, 10}

Max(S) == CHOOSE x \in S : \A y \in S : y <= x

Tasks == 1 .. Max({MaxTasks, MaxFixedTasks, MaxQueueTasks, MaxOrderTasks})
Wids == 1 .. MaxSpawn

VARIABLES
    typePool,      \* "Normal" | "Priority"
    plan,          \* the priorities a scripted caller submits, in order
    queue,         \* the queue's content, in insertion order
    nextSequence,  \* PriorityQueue::nextSequence
    threads,       \* ThreadPool::threads: slot -> worker thread (0: empty
                   \* slot; -1: the flag was made, the thread was not)
    isDone,        \* graceful stop requested
    isStop,        \* immediate stop requested
    numWaiting,    \* ThreadPool::numWaiting
    mutexOwner,    \* holder of ThreadPool::mutex (0: free)
    queueMutex,    \* holder of the queue's own mutex (0: free), where a
                   \*   specification makes its lock a step of its own
    cvWaiters,     \* worker threads blocked inside cv.wait
    nSpawned,      \* worker threads started so far
    wpc,           \* worker -> position in the lambda of setThread
    wind,          \* worker -> captured ind
    wflag,         \* worker -> *flag (isNotWorking)
    wfun,          \* worker -> fun while it holds a popped closure, else 0
    wdetached,     \* worker -> detached by a shrinking resize
    nSubmitted,    \* tasks pushed so far (task ids are 1 .. nSubmitted)
    tstate,        \* task -> "new" | "queued" | "held" | "running" | "done" (run
                   \*   by a worker) | "called" (run by the caller of pop()), or
                   \*   how it was deleted unexecuted: "cleared" (clearQueue()),
                   \*   "discarded" (stop(false)), "swept" (the clearQueue that
                   \*   ends stop), "dropped" (by the caller of pop())
    handle,        \* task -> "none" | "pending" | "value" | "exception" | "broken"
    runs,          \* task -> times the body was started
    deq,           \* task -> times a pop returned it
    cpc,           \* caller -> position inside the current operation
    ci,            \* caller -> loop index i
    cn,            \* caller -> numThreads argument / n = size()
    cfun,          \* caller -> task returned by pop() (0: empty function)
    resizeSnap     \* tasks queued when the current resize was entered

vars == << typePool, plan, queue, nextSequence, threads, isDone, isStop, numWaiting,
           mutexOwner, queueMutex, cvWaiters, nSpawned, wpc, wind, wflag, wfun, wdetached,
           nSubmitted, tstate, handle, runs, deq, cpc, ci, cn, cfun,
           resizeSnap >>

cfgvars == << typePool, plan >>
qvars == << queue, nextSequence >>
poolvars == << threads, isDone, isStop >>
wvars == << wpc, wind, wflag, wfun, wdetached, nSpawned >>
tvars == << nSubmitted, tstate, handle, runs, deq >>
cvars == << cpc, ci, cn, cfun >>
hvars == << resizeSnap >>

\* ------------------------------------------------------------------ queues

\* A faulty operator<: the priorities compared the wrong way round.
Less_LowFirst(a, b) ==
    IF a.priority # b.priority
    THEN a.priority > b.priority
    ELSE LET diff == (a.sequence - b.sequence + SeqMod) % SeqMod
         IN  IF diff > HalfRange
             THEN a.sequence > b.sequence
             ELSE a.sequence < b.sequence

\* PrioritizedTask::operator<
Less(a, b) ==
    IF a.priority # b.priority
    THEN a.priority < b.priority
    ELSE LET diff == (a.sequence - b.sequence + SeqMod) % SeqMod
         IN  IF diff > HalfRange
             THEN a.sequence > b.sequence
             ELSE a.sequence < b.sequence

\* NormalQueue::push: the queue holds the function pointers themselves.
NormalPush(q, fun) == Append(q, fun)

\* PriorityQueue::push(T, int): the entry and the counter after it.
PriorityEntry(fun, priority, seq) ==
    [function |-> fun, priority |-> priority, sequence |-> seq]

PriorityPush(q, fun, priority, seq) == Append(q, PriorityEntry(fun, priority, seq))

\* A faulty counter: it stays at UINT32_MAX instead of wrapping.
SeqAfter_Saturates(seq) == IF seq = SeqMax THEN SeqMax ELSE seq + 1

\* fetch_add(1) on a uint32_t, then the store of 0 after UINT32_MAX.
SeqAfter(seq) == IF seq = SeqMax THEN 0 ELSE (seq + 1) % SeqMod

\* A faulty top(): the oldest entry, whatever its priority.
PriorityTop_Oldest(q) == IF q = << >> THEN {} ELSE {1}

\* std::priority_queue::top(): an entry no other entry ranks strictly above.
\* Entries the comparator does not order (neither below the other, or each
\* below the other) may come out in either order.
PriorityTop(q) ==
    { i \in DOMAIN q :
        \A j \in DOMAIN q : ~Less(q[i], q[j]) \/ Less(q[j], q[i]) }

\* A faulty front(): the newest element, as back() would give.
NormalTop_Back(q) == IF q = << >> THEN {} ELSE {Len(q)}

\* std::queue::front()
NormalTop(q) == IF q = << >> THEN {} ELSE {1}

\* The positions a pop may return, per strategy.
PopChoices(tp, q) == IF tp = "Normal" THEN NormalTop(q) ELSE PriorityTop(q)

\* The function pointer stored at a position.
FunAt(tp, q, i) == IF tp = "Normal" THEN q[i] ELSE q[i].function

\* A faulty pop: the element is read and left in the queue.
Remove_Keep(q, i) == q

\* queue.pop(): the content without position i.
Remove(q, i) == SubSeq(q, 1, i - 1) \o SubSeq(q, i + 1, Len(q))

\* The tasks a queue holds.
Queued(tp, q) == { FunAt(tp, q, i) : i \in DOMAIN q }


\* ------------------------------------------------------------ notification

\* cv.notify_one(): one blocked worker, if any, leaves the wait.
NotifyOne ==
    IF cvWaiters = {}
    THEN UNCHANGED << cvWaiters, wpc >>
    ELSE \E w \in cvWaiters :
            /\ cvWaiters' = cvWaiters \ {w}
            /\ wpc' = [wpc EXCEPT ![w] = "reacquire"]

\* cv.notify_all(): every blocked worker leaves the wait.
NotifyAll ==
    /\ cvWaiters' = {}
    /\ wpc' = [w \in Wids |-> IF w \in cvWaiters THEN "reacquire" ELSE wpc[w]]

\* ------------------------------------------------------------------ tasks

\* A pop handed task t to a worker or to the caller.
TaskTaken(t) ==
    /\ tstate' = [tstate EXCEPT ![t] = "held"]
    /\ deq' = [deq EXCEPT ![t] = @ + 1]

\* A faulty deletion: the packaged_task outlives the closure, so the handle
\* stays pending.
TaskDeleted_KeepsPending(t, how) ==
    /\ tstate' = [tstate EXCEPT ![t] = how]
    /\ UNCHANGED handle

\* delete fun: the closure and its packaged_task die unexecuted, which breaks
\* the promise of a handle that is still pending.
TaskDeleted(t, how) ==
    /\ tstate' = [tstate EXCEPT ![t] = how]
    /\ handle' = [handle EXCEPT ![t] = IF @ = "pending" THEN "broken" ELSE @]

\* (*pck)(id): the packaged_task stores the body's value or its exception.
Outcome(ok) == IF ok THEN "value" ELSE "exception"

\* -------------------------------------------------------------- constructor

\* init(typePool), then threads.resize(numThreads) and setThread(i) for each i.
InitPool(sizes, seqs) ==
    /\ typePool \in {"Normal", "Priority"}
    /\ queue = << >>
    /\ nextSequence \in (IF typePool = "Priority" THEN seqs ELSE {0})
    /\ nSpawned \in sizes
    /\ threads = [i \in 1 .. nSpawned |-> i]
    /\ isDone = FALSE
    /\ isStop = FALSE
    /\ numWaiting = 0
    /\ mutexOwner = 0
    /\ queueMutex = 0
    /\ cvWaiters = {}
    /\ wpc = [w \in Wids |-> IF w <= nSpawned THEN "start" ELSE "none"]
    /\ wind = [w \in Wids |-> IF w <= nSpawned THEN w - 1 ELSE 0]
    /\ wflag = [w \in Wids |-> FALSE]
    /\ wfun = [w \in Wids |-> 0]
    /\ wdetached = [w \in Wids |-> FALSE]
    /\ nSubmitted = 0
    /\ tstate = [t \in Tasks |-> "new"]
    /\ handle = [t \in Tasks |-> "none"]
    /\ runs = [t \in Tasks |-> 0]
    /\ deq = [t \in Tasks |-> 0]
    /\ cpc = "idle"
    /\ ci = 0
    /\ cn = 0
    /\ cfun = 0
    /\ resizeSnap = {}

\* A pool as the constructors leave it: nextSequence{0}, nThreads threads.
Init == InitPool(0 .. MaxThreads, {0}) /\ plan = << >>

\* ------------------------------------------------------------ worker thread

\* isPop = queue->pop(fun) of worker w, continuing at got or at none.
WorkerPop(w, got, none) ==
    IF PopChoices(typePool, queue) = {}
    THEN /\ wfun' = [wfun EXCEPT ![w] = 0]
         /\ wpc' = [wpc EXCEPT ![w] = none]
         /\ UNCHANGED << queue, tstate, deq >>
    ELSE \E i \in PopChoices(typePool, queue) :
            /\ queue' = Remove(queue, i)
            /\ wfun' = [wfun EXCEPT ![w] = FunAt(typePool, queue, i)]
            /\ wpc' = [wpc EXCEPT ![w] = got]
            /\ TaskTaken(FunAt(typePool, queue, i))

\* A faulty worker: it starts with isPop = false and goes to the wait.
WStart_NoPop(w) ==
    /\ wpc[w] = "start"
    /\ wpc' = [wpc EXCEPT ![w] = "lock"]
    /\ UNCHANGED << cfgvars, queueMutex, qvars, poolvars, numWaiting, mutexOwner,
                    cvWaiters, nSpawned, wind, wflag, wfun, wdetached, tvars,
                    cvars, hvars >>

\* bool isPop = queue->pop(fun); on entry of the lambda.
WStart(w) ==
    /\ wpc[w] = "start"
    /\ WorkerPop(w, "exec", "lock")
    /\ queueMutex' = 0
    /\ UNCHANGED << cfgvars, nextSequence, poolvars, numWaiting, mutexOwner,
                    cvWaiters, nSpawned, wind, wflag, wdetached, nSubmitted,
                    handle, runs, cvars, hvars >>

\* (*fun)(ind): the body starts.
WExec(w) ==
    /\ wpc[w] = "exec"
    /\ wpc' = [wpc EXCEPT ![w] = "running"]
    /\ tstate' = [tstate EXCEPT ![wfun[w]] = "running"]
    /\ runs' = [runs EXCEPT ![wfun[w]] = @ + 1]
    /\ UNCHANGED << cfgvars, queueMutex, qvars, poolvars, numWaiting, mutexOwner, cvWaiters,
                    nSpawned, wind, wflag, wfun, wdetached, nSubmitted, handle,
                    deq, cvars, hvars >>

\* A faulty worker: the closure calls the body directly and the worker has no
\* catch block, so a body that throws ends the thread.
WRunEnd_Escapes(w) ==
    /\ wpc[w] = "running"
    /\ \E ok \in BOOLEAN :
          /\ handle' = [handle EXCEPT ![wfun[w]] = Outcome(ok)]
          /\ wpc' = [wpc EXCEPT ![w] = IF ok THEN "chkflag" ELSE "stopped"]
    /\ tstate' = [tstate EXCEPT ![wfun[w]] = "done"]
    /\ wfun' = [wfun EXCEPT ![w] = 0]
    /\ UNCHANGED << cfgvars, queueMutex, qvars, poolvars, numWaiting, mutexOwner, cvWaiters,
                    nSpawned, wind, wflag, wdetached, nSubmitted, runs, deq,
                    cvars, hvars >>

\* The body returns or throws; the packaged_task keeps either in the shared
\* state, so neither catch block of the worker is entered.  func, the
\* unique_ptr, deletes the closure.
WRunEnd(w) ==
    /\ wpc[w] = "running"
    /\ \E ok \in BOOLEAN :
          handle' = [handle EXCEPT ![wfun[w]] = Outcome(ok)]
    /\ tstate' = [tstate EXCEPT ![wfun[w]] = "done"]
    /\ wfun' = [wfun EXCEPT ![w] = 0]
    /\ wpc' = [wpc EXCEPT ![w] = "chkflag"]
    /\ UNCHANGED << cfgvars, queueMutex, qvars, poolvars, numWaiting, mutexOwner, cvWaiters,
                    nSpawned, wind, wflag, wdetached, nSubmitted, runs, deq,
                    cvars, hvars >>

\* A faulty check: if (_flag || isDone) return; the worker leaves queued
\* tasks behind on a graceful stop.
WChkFlag_StopsOnDone(w) ==
    /\ wpc[w] = "chkflag"
    /\ wpc' = [wpc EXCEPT ![w] = IF wflag[w] \/ isDone THEN "stopped" ELSE "pop"]
    /\ UNCHANGED << cfgvars, queueMutex, qvars, poolvars, numWaiting, mutexOwner, cvWaiters,
                    nSpawned, wind, wflag, wfun, wdetached, tvars, cvars, hvars >>

\* A faulty check: the flag is not read, the worker pops again.
WChkFlag_Ignores(w) ==
    /\ wpc[w] = "chkflag"
    /\ wpc' = [wpc EXCEPT ![w] = "pop"]
    /\ UNCHANGED << cfgvars, queueMutex, qvars, poolvars, numWaiting, mutexOwner, cvWaiters,
                    nSpawned, wind, wflag, wfun, wdetached, tvars, cvars, hvars >>

\* if (_flag) return;
WChkFlag(w) ==
    /\ wpc[w] = "chkflag"
    /\ wpc' = [wpc EXCEPT ![w] = IF wflag[w] THEN "stopped" ELSE "pop"]
    /\ UNCHANGED << cfgvars, queueMutex, qvars, poolvars, numWaiting, mutexOwner, cvWaiters,
                    nSpawned, wind, wflag, wfun, wdetached, tvars, cvars, hvars >>

\* else isPop = queue->pop(fun);
WPop(w) ==
    /\ wpc[w] = "pop"
    /\ WorkerPop(w, "exec", "lock")
    /\ queueMutex' = 0
    /\ UNCHANGED << cfgvars, nextSequence, poolvars, numWaiting, mutexOwner,
                    cvWaiters, nSpawned, wind, wflag, wdetached, nSubmitted,
                    handle, runs, cvars, hvars >>

\* std::unique_lock<std::mutex> lock(mutex); ++numWaiting;
WLock(w) ==
    /\ wpc[w] = "lock"
    /\ mutexOwner = 0
    /\ mutexOwner' = w
    /\ numWaiting' = numWaiting + 1
    /\ wpc' = [wpc EXCEPT ![w] = "pred"]
    /\ UNCHANGED << cfgvars, queueMutex, qvars, poolvars, cvWaiters, nSpawned, wind, wflag,
                    wfun, wdetached, tvars, cvars, hvars >>

\* The wait predicate, first half: isPop = queue->pop(fun), the pool mutex held.
WPred(w) ==
    /\ wpc[w] = "pred"
    /\ WorkerPop(w, "woke", "predflags")
    /\ queueMutex' = 0
    /\ UNCHANGED << cfgvars, nextSequence, poolvars, numWaiting, mutexOwner,
                    cvWaiters, nSpawned, wind, wflag, wdetached, nSubmitted,
                    handle, runs, cvars, hvars >>

\* A faulty predicate: return isPop || isDone || isStop || _flag.
WPredFlags_ReadsStop(w) ==
    /\ wpc[w] = "predflags"
    /\ IF isDone \/ isStop \/ wflag[w]
       THEN /\ wpc' = [wpc EXCEPT ![w] = "woke"]
            /\ UNCHANGED << mutexOwner, cvWaiters >>
       ELSE /\ wpc' = [wpc EXCEPT ![w] = "waiting"]
            /\ mutexOwner' = 0
            /\ cvWaiters' = cvWaiters \cup {w}
    /\ UNCHANGED << cfgvars, queueMutex, qvars, poolvars, numWaiting, nSpawned, wind, wflag,
                    wfun, wdetached, tvars, cvars, hvars >>

\* A faulty wait: the worker blocks without releasing the pool mutex.
WPredFlags_KeepsMutex(w) ==
    /\ wpc[w] = "predflags"
    /\ IF isDone \/ wflag[w]
       THEN /\ wpc' = [wpc EXCEPT ![w] = "woke"]
            /\ UNCHANGED cvWaiters
       ELSE /\ wpc' = [wpc EXCEPT ![w] = "waiting"]
            /\ cvWaiters' = cvWaiters \cup {w}
    /\ UNCHANGED << cfgvars, queueMutex, qvars, poolvars, numWaiting, mutexOwner,
                    nSpawned, wind, wflag, wfun, wdetached, tvars, cvars, hvars >>

\* A faulty predicate: return isPop || _flag; a graceful stop does not end
\* the wait.
WPredFlags_IgnoresDone(w) ==
    /\ wpc[w] = "predflags"
    /\ IF wflag[w]
       THEN /\ wpc' = [wpc EXCEPT ![w] = "woke"]
            /\ UNCHANGED << mutexOwner, cvWaiters >>
       ELSE /\ wpc' = [wpc EXCEPT ![w] = "waiting"]
            /\ mutexOwner' = 0
            /\ cvWaiters' = cvWaiters \cup {w}
    /\ UNCHANGED << cfgvars, queueMutex, qvars, poolvars, numWaiting, nSpawned, wind, wflag,
                    wfun, wdetached, tvars, cvars, hvars >>

\* The wait predicate, second half: return isPop || isDone || _flag; when it is
\* false the wait releases the mutex and blocks.
WPredFlags(w) ==
    /\ wpc[w] = "predflags"
    /\ IF isDone \/ wflag[w]
       THEN /\ wpc' = [wpc EXCEPT ![w] = "woke"]
            /\ UNCHANGED << mutexOwner, cvWaiters >>
       ELSE /\ wpc' = [wpc EXCEPT ![w] = "waiting"]
            /\ mutexOwner' = 0
            /\ cvWaiters' = cvWaiters \cup {w}
    /\ UNCHANGED << cfgvars, queueMutex, qvars, poolvars, numWaiting, nSpawned, wind, wflag,
                    wfun, wdetached, tvars, cvars, hvars >>

\* A spurious wake-up of cv.wait.
WSpurious(w) ==
    /\ wpc[w] = "waiting"
    /\ w \in cvWaiters
    /\ cvWaiters' = cvWaiters \ {w}
    /\ wpc' = [wpc EXCEPT ![w] = "reacquire"]
    /\ UNCHANGED << cfgvars, queueMutex, qvars, poolvars, numWaiting, mutexOwner, nSpawned,
                    wind, wflag, wfun, wdetached, tvars, cvars, hvars >>

\* The woken wait takes the mutex again and evaluates the predicate again.
WReacquire(w) ==
    /\ wpc[w] = "reacquire"
    /\ mutexOwner = 0
    /\ mutexOwner' = w
    /\ wpc' = [wpc EXCEPT ![w] = "pred"]
    /\ UNCHANGED << cfgvars, queueMutex, qvars, poolvars, numWaiting, cvWaiters, nSpawned,
                    wind, wflag, wfun, wdetached, tvars, cvars, hvars >>

\* A faulty worker: the lock outlives the wait, so the worker drains the
\* queue with the pool mutex held.
WWoke_KeepsLock(w) ==
    /\ wpc[w] = "woke"
    /\ numWaiting' = numWaiting - 1
    /\ wpc' = [wpc EXCEPT ![w] = IF wfun[w] = 0 THEN "stopped" ELSE "exec"]
    /\ UNCHANGED << cfgvars, queueMutex, qvars, poolvars, mutexOwner, cvWaiters, nSpawned,
                    wind, wflag, wfun, wdetached, tvars, cvars, hvars >>

\* --numWaiting; if (!isPop) return; and the lock's scope ends.
WWoke(w) ==
    /\ wpc[w] = "woke"
    /\ numWaiting' = numWaiting - 1
    /\ mutexOwner' = 0
    /\ wpc' = [wpc EXCEPT ![w] = IF wfun[w] = 0 THEN "stopped" ELSE "exec"]
    /\ UNCHANGED << cfgvars, queueMutex, qvars, poolvars, cvWaiters, nSpawned, wind, wflag,
                    wfun, wdetached, tvars, cvars, hvars >>

\* The steps of worker w that the scheduler owes it (all but a spurious wake).
WorkerStep(w) ==
    \/ WStart(w)
    \/ WExec(w)
    \/ WRunEnd(w)
    \/ WChkFlag(w)
    \/ WPop(w)
    \/ WLock(w)
    \/ WPred(w)
    \/ WPredFlags(w)
    \/ WReacquire(w)
    \/ WWoke(w)


\* ------------------------------------------------------------ caller thread

\* The positions of the caller inside stop.
StopPcs == {"stop_flags", "stop_clear1", "stop_notify", "stop_join",
            "stop_clear2", "stop_threads"}

\* push(int priority, F&&, Rest&&...), first half: the closure is pushed on the
\* queue (with its priority on a priority queue, plainly otherwise).
CPush(priority) ==
    /\ cpc = "idle"
    /\ nSubmitted' = nSubmitted + 1
    /\ IF typePool = "Priority"
       THEN /\ queue' = PriorityPush(queue, nSubmitted + 1, priority, nextSequence)
            /\ nextSequence' = SeqAfter(nextSequence)
       ELSE /\ queue' = NormalPush(queue, nSubmitted + 1)
            /\ UNCHANGED nextSequence
    /\ tstate' = [tstate EXCEPT ![nSubmitted + 1] = "queued"]
    /\ handle' = [handle EXCEPT ![nSubmitted + 1] = "pending"]
    /\ cpc' = "push_notify"
    /\ queueMutex' = 0
    /\ UNCHANGED << cfgvars, poolvars, numWaiting, mutexOwner, cvWaiters, wvars,
                    runs, deq, ci, cn, cfun, hvars >>

\* A faulty push: cv.notify_one() without taking this->mutex.
CPushNotify_NoLock ==
    /\ cpc = "push_notify"
    /\ NotifyOne
    /\ cpc' = "idle"
    /\ UNCHANGED << cfgvars, queueMutex, qvars, poolvars, numWaiting, mutexOwner, nSpawned,
                    wind, wflag, wfun, wdetached, tvars, ci, cn, cfun, hvars >>

\* push, second half: lock(this->mutex); cv.notify_one(); return the future.
CPushNotify ==
    /\ cpc = "push_notify"
    /\ mutexOwner = 0
    /\ NotifyOne
    /\ cpc' = "idle"
    /\ UNCHANGED << cfgvars, queueMutex, qvars, poolvars, numWaiting, mutexOwner, nSpawned,
                    wind, wflag, wfun, wdetached, tvars, ci, cn,
                    cfun, hvars >>

\* pop(): one queue->pop; the caller gets a copy of the closure, or an empty
\* function.
CPop ==
    /\ cpc = "idle"
    /\ IF PopChoices(typePool, queue) = {}
       THEN UNCHANGED << queue, tstate, deq, cfun, cpc >>
       ELSE \E i \in PopChoices(typePool, queue) :
               /\ queue' = Remove(queue, i)
               /\ cfun' = FunAt(typePool, queue, i)
               /\ TaskTaken(FunAt(typePool, queue, i))
               /\ cpc' = "popped"
    /\ queueMutex' = 0
    /\ UNCHANGED << cfgvars, nextSequence, poolvars, numWaiting, mutexOwner,
                    cvWaiters, wvars, nSubmitted, handle, runs, ci, cn, hvars >>

\* The caller invokes the function pop() returned: task(999).
CRunPopped ==
    /\ cpc = "popped"
    /\ runs' = [runs EXCEPT ![cfun] = @ + 1]
    /\ \E ok \in BOOLEAN : handle' = [handle EXCEPT ![cfun] = Outcome(ok)]
    /\ tstate' = [tstate EXCEPT ![cfun] = "called"]
    /\ cfun' = 0
    /\ cpc' = "idle"
    /\ UNCHANGED << cfgvars, queueMutex, qvars, poolvars, numWaiting, mutexOwner, cvWaiters,
                    wvars, nSubmitted, deq, ci, cn, hvars >>

\* The caller lets the function pop() returned go without invoking it.
CDropPopped ==
    /\ cpc = "popped"
    /\ TaskDeleted(cfun, "dropped")
    /\ cfun' = 0
    /\ cpc' = "idle"
    /\ UNCHANGED << cfgvars, queueMutex, qvars, poolvars, numWaiting, mutexOwner, cvWaiters,
                    wvars, nSubmitted, runs, deq, ci, cn, hvars >>

\* clearQueue() is entered by the caller.
CClear ==
    /\ cpc = "idle"
    /\ cpc' = "clear"
    /\ UNCHANGED << cfgvars, queueMutex, qvars, poolvars, numWaiting, mutexOwner, cvWaiters,
                    wvars, tvars, ci, cn, cfun, hvars >>

\* Where the caller continues when the loop of clearQueue ends.
AfterClear(pc) ==
    CASE pc = "clear" -> "idle"
      [] pc = "stop_clear1" -> "stop_notify"
      [] pc = "stop_clear2" -> "stop_threads"

\* How a task deleted by that call of clearQueue is recorded.
ClearedAs(pc) ==
    CASE pc = "clear" -> "cleared"
      [] pc = "stop_clear1" -> "discarded"
      [] pc = "stop_clear2" -> "swept"

\* while (queue->pop(fun)) delete fun; one turn of the loop, in clearQueue()
\* itself or in either call of it inside stop.
CClearStep ==
    /\ cpc \in {"clear", "stop_clear1", "stop_clear2"}
    /\ IF PopChoices(typePool, queue) = {}
       THEN /\ cpc' = AfterClear(cpc)
            /\ UNCHANGED << queue, tstate, deq, handle >>
       ELSE \E i \in PopChoices(typePool, queue) :
               /\ queue' = Remove(queue, i)
               /\ deq' = [deq EXCEPT ![FunAt(typePool, queue, i)] = @ + 1]
               /\ TaskDeleted(FunAt(typePool, queue, i), ClearedAs(cpc))
               /\ UNCHANGED cpc
    /\ queueMutex' = 0
    /\ UNCHANGED << cfgvars, nextSequence, poolvars, numWaiting, mutexOwner,
                    cvWaiters, wvars, nSubmitted, runs, ci, cn, cfun, hvars >>

\* A faulty stop: the graceful branch tests isDone only, so stop(true) runs
\* again after stop(false).
CStop_OnlyDone(isWait) ==
    /\ cpc = "idle"
    /\ IF ~isWait
       THEN IF isStop
            THEN UNCHANGED << isStop, isDone, cpc, ci, cn >>
            ELSE /\ isStop' = TRUE
                 /\ cpc' = "stop_flags"
                 /\ ci' = 0
                 /\ cn' = Len(threads)
                 /\ UNCHANGED isDone
       ELSE IF isDone
            THEN UNCHANGED << isStop, isDone, cpc, ci, cn >>
            ELSE /\ isDone' = TRUE
                 /\ cpc' = "stop_notify"
                 /\ UNCHANGED << isStop, ci, cn >>
    /\ UNCHANGED << cfgvars, queueMutex, qvars, threads, numWaiting, mutexOwner, cvWaiters,
                    wvars, tvars, cfun, hvars >>

\* stop(isWait), up to the first store: the guards of either branch, then
\* isStop = true or isDone = true.
CStop(isWait) ==
    /\ cpc = "idle"
    /\ IF ~isWait
       THEN IF isStop
            THEN UNCHANGED << isStop, isDone, cpc, ci, cn >>
            ELSE /\ isStop' = TRUE
                 /\ cpc' = "stop_flags"
                 /\ ci' = 0
                 /\ cn' = Len(threads)
                 /\ UNCHANGED isDone
       ELSE IF isDone \/ isStop
            THEN UNCHANGED << isStop, isDone, cpc, ci, cn >>
            ELSE /\ isDone' = TRUE
                 /\ cpc' = "stop_notify"
                 /\ UNCHANGED << isStop, ci, cn >>
    /\ UNCHANGED << cfgvars, queueMutex, qvars, threads, numWaiting, mutexOwner, cvWaiters,
                    wvars, tvars, cfun, hvars >>

\* The slot holds a started thread.
HasThread(slot) == slot > 0

\* The slot's isNotWorking points to a flag.
HasFlag(slot) == slot # 0

\* for (i < n) *threads[i].isNotWorking = true; one turn, or the loop's end and
\* the entry of this->clearQueue().  A slot without a flag holds a null
\* shared_ptr, and the process dies on the store through it.
CStopFlag ==
    /\ cpc = "stop_flags"
    /\ IF ci < cn
       THEN IF HasFlag(threads[ci + 1])
            THEN /\ wflag' = [w \in Wids |-> wflag[w] \/ w = threads[ci + 1]]
                 /\ ci' = ci + 1
                 /\ UNCHANGED cpc
            ELSE /\ cpc' = "crashed"
                 /\ UNCHANGED << wflag, ci >>
       ELSE /\ cpc' = "stop_clear1"
            /\ UNCHANGED << wflag, ci >>
    /\ UNCHANGED << cfgvars, queueMutex, qvars, poolvars, numWaiting, mutexOwner, cvWaiters,
                    nSpawned, wpc, wind, wfun, wdetached, tvars, cn, cfun,
                    hvars >>

\* { lock(this->mutex); cv.notify_all(); }
CStopNotify ==
    /\ cpc = "stop_notify"
    /\ mutexOwner = 0
    /\ NotifyAll
    /\ cpc' = "stop_join"
    /\ ci' = 0
    /\ cn' = Len(threads)
    /\ UNCHANGED << cfgvars, queueMutex, qvars, poolvars, numWaiting, mutexOwner, nSpawned,
                    wind, wflag, wfun, wdetached, tvars, cfun, hvars >>

\* threads[i].thread && threads[i].thread->joinable()
Joinable(slot) == HasThread(threads[slot]) /\ ~wdetached[threads[slot]]

\* for (i < n) if (joinable) threads[i].thread->join(); one turn, which
\* returns once that worker has returned, or the loop's end and the entry of
\* clearQueue().
CStopJoin ==
    /\ cpc = "stop_join"
    /\ IF ci < cn
       THEN /\ Joinable(ci + 1) => wpc[threads[ci + 1]] = "stopped"
            /\ ci' = ci + 1
            /\ UNCHANGED cpc
       ELSE /\ cpc' = "stop_clear2"
            /\ UNCHANGED ci
    /\ UNCHANGED << cfgvars, queueMutex, qvars, poolvars, numWaiting, mutexOwner, cvWaiters,
                    wvars, tvars, cn, cfun, hvars >>

\* threads.clear(); and stop returns.
CStopThreads ==
    /\ cpc = "stop_threads"
    /\ threads' = << >>
    /\ cpc' = "idle"
    /\ ci' = 0
    /\ cn' = 0
    /\ UNCHANGED << cfgvars, queueMutex, qvars, isDone, isStop, numWaiting, mutexOwner,
                    cvWaiters, wvars, tvars, cfun, hvars >>

\* i >= numThreads with int i and unsigned numThreads: i is converted to
\* unsigned, so a negative i compares as a huge value.
UnsignedGE(i, n) == IF i < 0 THEN TRUE ELSE i >= n

\* threads.resize(numThreads): new slots hold no thread, excess slots go.
VectorResize(v, n) ==
    [i \in 1 .. n |-> IF i <= Len(v) THEN v[i] ELSE 0]

\* A faulty resize: the test of the stop flags is missing.
CResize_NoGuard(n) ==
    /\ cpc = "idle"
    /\ cn' = n
    /\ resizeSnap' = Queued(typePool, queue)
    /\ IF Len(threads) <= n
       THEN /\ threads' = VectorResize(threads, n)
            /\ ci' = Len(threads)
            /\ cpc' = "resize_grow"
       ELSE /\ ci' = Len(threads) - 1
            /\ cpc' = "resize_shrink"
            /\ UNCHANGED threads
    /\ UNCHANGED << cfgvars, queueMutex, qvars, isDone, isStop, numWaiting, mutexOwner,
                    cvWaiters, wvars, tvars, cfun >>

\* resize(numThreads), up to the branch: nothing when a stop flag is set;
\* growing starts with threads.resize(numThreads).
CResize(n) ==
    /\ cpc = "idle"
    /\ IF ~isStop /\ ~isDone
       THEN /\ cn' = n
            /\ resizeSnap' = Queued(typePool, queue)
            /\ IF Len(threads) <= n
               THEN /\ threads' = VectorResize(threads, n)
                    /\ ci' = Len(threads)
                    /\ cpc' = "resize_grow"
               ELSE /\ ci' = Len(threads) - 1
                    /\ cpc' = "resize_shrink"
                    /\ UNCHANGED threads
       ELSE UNCHANGED << cn, resizeSnap, threads, ci, cpc >>
    /\ UNCHANGED << cfgvars, queueMutex, qvars, isDone, isStop, numWaiting, mutexOwner,
                    cvWaiters, wvars, tvars, cfun >>

\* for (i < numThreads): the flag is made and setThread(i) starts the thread;
\* one turn, or the loop's end, where resize returns.
CResizeGrow ==
    /\ cpc = "resize_grow"
    /\ IF ci < cn
       THEN /\ nSpawned' = nSpawned + 1
            /\ threads' = [threads EXCEPT ![ci + 1] = nSpawned + 1]
            /\ wpc' = [wpc EXCEPT ![nSpawned + 1] = "start"]
            /\ wind' = [wind EXCEPT ![nSpawned + 1] = ci]
            /\ wflag' = [wflag EXCEPT ![nSpawned + 1] = FALSE]
            /\ ci' = ci + 1
            /\ UNCHANGED << cpc, cn, resizeSnap >>
       ELSE /\ cpc' = "idle"
            /\ ci' = 0
            /\ cn' = 0
            /\ resizeSnap' = {}
            /\ UNCHANGED << nSpawned, threads, wpc, wind, wflag >>
    /\ UNCHANGED << cfgvars, queueMutex, qvars, isDone, isStop, numWaiting, mutexOwner,
                    cvWaiters, wfun, wdetached, tvars, cfun >>

\* new std::thread(f) throws std::system_error in setThread(i): the flag of
\* slot i has been made, the slots from i on hold no thread, and the exception
\* leaves resize, which has no handler.
CResizeGrowFails ==
    /\ cpc = "resize_grow"
    /\ ci < cn
    /\ threads' = [threads EXCEPT ![ci + 1] = -1]
    /\ cpc' = "idle"
    /\ ci' = 0
    /\ cn' = 0
    /\ resizeSnap' = {}
    /\ UNCHANGED << cfgvars, queueMutex, qvars, isDone, isStop, numWaiting, mutexOwner,
                    cvWaiters, wvars, tvars, cfun >>

\* for (i = oldNumThread - 1; i >= numThreads; --i): the flag is set and the
\* thread detached; one turn, or the loop's end.  With numThreads = 0 the test
\* stays true at i = -1 and threads[-1] is accessed: the process dies there,
\* as it does on a slot that holds no thread (thread->detach() through a null
\* unique_ptr, after a store through a null shared_ptr if there is no flag).
CResizeShrink ==
    /\ cpc = "resize_shrink"
    /\ IF UnsignedGE(ci, cn)
       THEN IF ci < 0 \/ ~HasThread(threads[ci + 1])
            THEN /\ cpc' = "crashed"
                 /\ UNCHANGED << wflag, wdetached, ci >>
            ELSE /\ wflag' = [wflag EXCEPT ![threads[ci + 1]] = TRUE]
                 /\ wdetached' = [wdetached EXCEPT ![threads[ci + 1]] = TRUE]
                 /\ ci' = ci - 1
                 /\ UNCHANGED cpc
       ELSE /\ cpc' = "resize_notify"
            /\ UNCHANGED << wflag, wdetached, ci >>
    /\ UNCHANGED << cfgvars, queueMutex, qvars, poolvars, numWaiting, mutexOwner, cvWaiters,
                    nSpawned, wpc, wind, wfun, tvars, cn, cfun, hvars >>

\* lock(mutex); cv.notify_all(); lock.unlock();
CResizeNotify ==
    /\ cpc = "resize_notify"
    /\ mutexOwner = 0
    /\ NotifyAll
    /\ cpc' = "resize_truncate"
    /\ UNCHANGED << cfgvars, queueMutex, qvars, poolvars, numWaiting, mutexOwner, nSpawned,
                    wind, wflag, wfun, wdetached, tvars, ci, cn, cfun, hvars >>

\* A faulty shrink: the excess slots are never removed from threads.
CResizeTruncate_Keeps ==
    /\ cpc = "resize_truncate"
    /\ cpc' = "idle"
    /\ ci' = 0
    /\ cn' = 0
    /\ resizeSnap' = {}
    /\ UNCHANGED << cfgvars, queueMutex, qvars, poolvars, numWaiting, mutexOwner,
                    cvWaiters, wvars, tvars, cfun >>

\* threads.resize(numThreads); and resize returns.
CResizeTruncate ==
    /\ cpc = "resize_truncate"
    /\ threads' = VectorResize(threads, cn)
    /\ cpc' = "idle"
    /\ ci' = 0
    /\ cn' = 0
    /\ resizeSnap' = {}
    /\ UNCHANGED << cfgvars, queueMutex, qvars, isDone, isStop, numWaiting, mutexOwner,
                    cvWaiters, wvars, tvars, cfun >>

\* A step of the caller inside an operation it has entered.
CallerStep ==
    \/ CPushNotify
    \/ CClearStep
    \/ CStopFlag
    \/ CStopNotify
    \/ CStopJoin
    \/ CStopThreads
    \/ CResizeGrow
    \/ CResizeShrink
    \/ CResizeNotify
    \/ CResizeTruncate

\* ------------------------------------------------------------ specification

\* resize(n) as the model calls it: within the bound on started threads.
CanResize(n) ==
    nSpawned + (IF n > Len(threads) THEN n - Len(threads) ELSE 0) <= MaxSpawn

\* The process has not crashed; every thread of a crashed process has
\* stopped (the caller's operations are guarded by cpc).
Alive == cpc # "crashed"

\* All operations, on a pool of either strategy.
Next ==
    \/ \E w \in Wids : Alive /\ WorkerStep(w)
    \/ \E w \in Wids : Alive /\ WSpurious(w)
    \/ \E p \in Priorities : nSubmitted < MaxTasks /\ CPush(p)
    \/ CPop
    \/ CRunPopped
    \/ CDropPopped
    \/ CClear
    \/ \E b \in BOOLEAN : CStop(b)
    \/ \E n \in 0 .. MaxThreads : CanResize(n) /\ CResize(n)
    \/ CallerStep

Spec == Init /\ [][Next]_vars

\* A pool that is never resized: the threads of the constructor only.
NextFixed ==
    \/ \E w \in Wids : WorkerStep(w)
    \/ \E w \in Wids : WSpurious(w)
    \/ \E p \in Priorities : nSubmitted < MaxFixedTasks /\ CPush(p)
    \/ CPop
    \/ CRunPopped
    \/ CDropPopped
    \/ CClear
    \/ \E b \in BOOLEAN : CStop(b)
    \/ CPushNotify
    \/ CClearStep
    \/ CStopFlag
    \/ CStopNotify
    \/ CStopJoin
    \/ CStopThreads

FixedSpec == Init /\ [][NextFixed]_vars

\* The queue alone: a pool constructed with no thread, whose caller pushes
\* and pops.  The sequence counter starts at 0, or where earlier pushes have
\* left it two short of its wrap.
InitQueue == InitPool({0}, {0, SeqMax - 1}) /\ plan = << >>

NextQueue ==
    \/ \E p \in Priorities : nSubmitted < MaxQueueTasks /\ CPush(p)
    \/ CPushNotify
    \/ CPop
    \/ CRunPopped
    \/ CDropPopped

QueueSpec == InitQueue /\ [][NextQueue]_vars

\* A running pool: tasks are pushed and the pool is resized to one thread or
\* more, and never stopped.  The scheduler owes every worker its next step
\* and the caller the rest of an operation it has entered; it owes nobody a
\* spurious wake-up, and every task body ends.
CanResizeLive(n) ==
    nSpawned + (IF n > Len(threads) THEN n - Len(threads) ELSE 0) <= MaxLiveSpawn

NextLive ==
    \/ \E w \in Wids : WorkerStep(w)
    \/ \E w \in Wids : WSpurious(w)
    \/ \E p \in Priorities : nSubmitted < MaxTasks /\ CPush(p)
    \/ \E n \in 1 .. MaxThreads : CanResizeLive(n) /\ CResize(n)
    \/ CPushNotify
    \/ CResizeGrow
    \/ CResizeShrink
    \/ CResizeNotify
    \/ CResizeTruncate

Fairness ==
    /\ \A w \in Wids : WF_vars(WorkerStep(w))
    /\ WF_vars(CallerStep)

LiveSpec == Init /\ [][NextLive]_vars /\ Fairness

\* A running pool as in LiveSpec whose caller may also resize it to no thread
\* at all.  A crashed process takes no step, so the scheduler owes a worker
\* its next step only while the process is alive.
NextShrink ==
    \/ \E w \in Wids : Alive /\ WorkerStep(w)
    \/ \E w \in Wids : Alive /\ WSpurious(w)
    \/ \E p \in Priorities : nSubmitted < MaxTasks /\ CPush(p)
    \/ \E n \in 0 .. MaxThreads : CanResizeLive(n) /\ CResize(n)
    \/ CPushNotify
    \/ CResizeGrow
    \/ CResizeShrink
    \/ CResizeNotify
    \/ CResizeTruncate

FairnessAlive ==
    /\ \A w \in Wids : WF_vars(Alive /\ WorkerStep(w))
    /\ WF_vars(CallerStep)

ShrinkSpec == Init /\ [][NextShrink]_vars /\ FairnessAlive

\* The pool of ShrinkSpec under a scheduler that also lets no thread starve
\* at the pool mutex: a worker that asks for the mutex again and again while
\* others take and release it gets it in the end, and so does the caller for
\* its notifications.
FairLocks ==
    /\ \A w \in Wids : WF_vars(Alive /\ WorkerStep(w))
    /\ \A w \in Wids : SF_vars(Alive /\ (WLock(w) \/ WReacquire(w)))
    /\ SF_vars(CallerStep)

ShrinkFairSpec == Init /\ [][NextShrink]_vars /\ FairLocks

\* A pool that is pushed to, resized and stopped, gracefully or at once, under
\* the scheduler of ShrinkFairSpec.  Every task body ends, and the caller
\* submits a bounded number of tasks.
NextStopLive ==
    \/ \E w \in Wids : Alive /\ WorkerStep(w)
    \/ \E w \in Wids : Alive /\ WSpurious(w)
    \/ \E p \in Priorities : nSubmitted < MaxTasks /\ CPush(p)
    \/ \E b \in BOOLEAN : CStop(b)
    \/ \E n \in 0 .. MaxThreads : CanResizeLive(n) /\ CResize(n)
    \/ CallerStep

StopLiveSpec == Init /\ [][NextStopLive]_vars /\ FairLocks

\* The caller thread, as a holder of the queue mutex.
Caller == MaxSpawn + 1

\* The positions of a worker at a call of queue->pop.
PopPcs == {"start", "pop", "pred"}

\* The positions of the caller at a call of queue->push or queue->pop: push()
\* and pop() when it is between operations, and the loop of clearQueue().
CallerQueuePcs == {"idle", "clear", "stop_clear1", "stop_clear2"}

\* std::unique_lock<std::mutex> lock(this->mutex) on entry of the queue's
\* pop, by worker w: it blocks while another thread is inside the queue.
WQueueLock(w) ==
    /\ wpc[w] \in PopPcs
    /\ queueMutex = 0
    /\ queueMutex' = w
    /\ UNCHANGED << cfgvars, qvars, poolvars, numWaiting, mutexOwner, cvWaiters,
                    wvars, tvars, cvars, hvars >>

\* The same lock on entry of the queue's push or pop, by the caller.
CQueueLock ==
    /\ cpc \in CallerQueuePcs
    /\ queueMutex = 0
    /\ queueMutex' = Caller
    /\ UNCHANGED << cfgvars, qvars, poolvars, numWaiting, mutexOwner, cvWaiters,
                    wvars, tvars, cvars, hvars >>

\* The steps of worker w outside the queue.
WorkerOutsideQueue(w) ==
    \/ WExec(w)
    \/ WRunEnd(w)
    \/ WChkFlag(w)
    \/ WLock(w)
    \/ WPredFlags(w)
    \/ WReacquire(w)
    \/ WWoke(w)

\* The steps of the caller inside stop and resize, and the notification of
\* push: none of them is inside the queue.
CallerOutsideQueue ==
    \/ CPushNotify
    \/ CStopFlag
    \/ CStopNotify
    \/ CStopJoin
    \/ CStopThreads
    \/ CResizeGrow
    \/ CResizeShrink
    \/ CResizeNotify
    \/ CResizeTruncate

\* The pool with both of its locks: every queue operation is two steps, the
\* lock of the queue mutex and then the operation, which ends with the
\* unlock; a thread inside the queue does nothing else until it has left it.
NextLock ==
    \/ \E w \in Wids : WQueueLock(w)
    \/ \E w \in Wids : queueMutex = w /\ WStart(w)
    \/ \E w \in Wids : queueMutex = w /\ WPop(w)
    \/ \E w \in Wids : queueMutex = w /\ WPred(w)
    \/ \E w \in Wids : WorkerOutsideQueue(w)
    \/ \E w \in Wids : WSpurious(w)
    \/ CQueueLock
    \/ \E p \in Priorities :
          nSubmitted < MaxTasks /\ queueMutex = Caller /\ CPush(p)
    \/ queueMutex = Caller /\ CPop
    \/ queueMutex = Caller /\ CClearStep
    \/ CRunPopped
    \/ CDropPopped
    \/ queueMutex # Caller /\ CClear
    \/ \E b \in BOOLEAN : queueMutex # Caller /\ CStop(b)
    \/ \E n \in 1 .. MaxThreads :
          CanResizeLive(n) /\ queueMutex # Caller /\ CResize(n)
    \/ CallerOutsideQueue

LockSpec == Init /\ [][NextLock]_vars

\* A Priority pool with exactly one worker and a caller that submits the
\* tasks of its plan one after another, at whatever pace.
InitOrder ==
    /\ InitPool({1}, {0})
    /\ typePool = "Priority"
    /\ plan \in [1 .. MaxOrderTasks -> Priorities]

NextOrder ==
    \/ \E w \in Wids : WorkerStep(w)
    \/ \E w \in Wids : WSpurious(w)
    \/ nSubmitted < MaxOrderTasks /\ CPush(plan[nSubmitted + 1])
    \/ CPushNotify

OrderSpec == InitOrder /\ [][NextOrder]_vars

\* A pool whose thread creation may fail during a growing resize, and which
\* is then pushed to, resized to one thread or more, and stopped.
NextFail ==
    \/ \E w \in Wids : Alive /\ WorkerStep(w)
    \/ \E w \in Wids : Alive /\ WSpurious(w)
    \/ \E p \in Priorities : nSubmitted < MaxTasks /\ CPush(p)
    \/ \E b \in BOOLEAN : CStop(b)
    \/ \E n \in 1 .. MaxThreads : CanResizeLive(n) /\ CResize(n)
    \/ CResizeGrowFails
    \/ CallerStep

FailSpec == Init /\ [][NextFail]_vars

\* ------------------------------------------------------------------ claims

\* isRunning()
IsRunning == ~isDone /\ ~isStop

\* The parties that hold task t: the queue, a worker, the caller of pop().
Holders(t) ==
    Cardinality({i \in DOMAIN queue : FunAt(typePool, queue, i) = t})
    + Cardinality({w \in Wids : wfun[w] = t})
    + (IF cfun = t THEN 1 ELSE 0)

\* C1: at-most-once execution.  Under every interleaving of push, the workers'
\* pops, pop(), clearQueue(), resize() and stop(), no task is returned by more
\* than one pop, no task is held by two parties, and no body is started twice.
C1_AtMostOnce ==
    \A t \in Tasks :
        /\ deq[t] <= 1
        /\ runs[t] <= 1
        /\ Holders(t) <= 1
        /\ runs[t] <= deq[t]

\* C1 happens: two workers run two different tasks at the same time.
C1_Witness ==
    \E w1, w2 \in Wids :
        /\ w1 # w2
        /\ wpc[w1] = "running" /\ wpc[w2] = "running"
        /\ wfun[w1] # wfun[w2]
        /\ runs[wfun[w1]] = 1 /\ runs[wfun[w2]] = 1

\* C2, for a pool that still has worker threads when stop is called: when
\* stop returns, every pushed task that no clearQueue() or pop() call took
\* has run exactly once, or was discarded from the queue by stop(false).
C2_NoSilentDrop ==
    [][ (cpc = "stop_threads" /\ cpc' = "idle" /\ cn >= 1) =>
            \A t \in 1 .. nSubmitted :
                \/ tstate[t] \in {"cleared", "dropped", "called"}
                \/ tstate[t] = "done" /\ runs[t] = 1
                \/ isStop /\ tstate[t] = "discarded" ]_vars

\* C3: no lost wake-up.  In a running pool with at least one worker whose
\* private stop flag is unset, a queued task is eventually executed by a
\* worker, with no further push.
LiveWorker(w) == wpc[w] \notin {"none", "stopped"} /\ ~wflag[w]

C3_NoLostWakeup ==
    \A t \in 1 .. MaxTasks :
        (tstate[t] = "queued" /\ \E w \in Wids : LiveWorker(w))
            ~> (tstate[t] = "done")

\* C3 happens: a task is queued while the only live worker is blocked in the
\* wait, so its execution rests on the notification of push.
C3_Witness ==
    \E t \in Tasks, w \in Wids :
        /\ tstate[t] = "queued"
        /\ LiveWorker(w)
        /\ wpc[w] = "waiting"
        /\ \A v \in Wids \ {w} : ~LiveWorker(v)
        /\ cpc = "push_notify"

\* The tasks some pop has returned.
Popped == { t \in Tasks : deq[t] > 0 }

\* C4: FIFO strategy.  Whatever the interleaving of pushes and pops, the
\* tasks popped so far are the first pushed, the queue holds the others in
\* the order of their pushes, and the task a pop just returned is the last of
\* the popped ones.
C4_Fifo ==
    typePool = "Normal" =>
        LET k == Cardinality(Popped)
        IN  /\ Popped = 1 .. k
            /\ queue = [i \in 1 .. (nSubmitted - k) |-> k + i]
            /\ cpc = "popped" => cfun = k

\* C4 happens: two tasks were popped, the second after later pushes, and two
\* more are queued.
C4_Witness ==
    /\ typePool = "Normal"
    /\ cpc = "popped"
    /\ cfun = 2
    /\ tstate[1] \in {"called", "dropped"}
    /\ Len(queue) = 2

\* The entries of q that are gone from r.
Gone(q, r) ==
    { i \in DOMAIN q : \A j \in DOMAIN r : r[j] # q[i] }

C6_FifoInBand ==
    [][ (typePool = "Priority" /\ Len(queue') < Len(queue)) =>
            \A i \in Gone(queue, queue') :
                \A j \in DOMAIN queue' :
                    queue'[j].priority = queue[i].priority
                        => queue'[j].function > queue[i].function ]_vars

\* C7: failure isolation.  The step in which a body throws puts the
\* exception into that task's handle and changes nothing else: neither stop
\* flag, no other task, not the queue; the worker that ran the body goes on
\* to its flag check as after any body.  A handle that holds a value or an
\* exception keeps it.
C7_FailureIsolation ==
    /\ [][ \A t \in Tasks :
             (handle[t] = "pending" /\ handle'[t] = "exception") =>
                /\ isDone' = isDone /\ isStop' = isStop
                /\ queue' = queue
                /\ \A u \in Tasks \ {t} :
                      handle'[u] = handle[u] /\ tstate'[u] = tstate[u]
                /\ \/ cpc = "popped" /\ cfun = t
                   \/ \E w \in Wids :
                         /\ wfun[w] = t
                         /\ wpc[w] = "running"
                         /\ wpc'[w] = "chkflag"
                         /\ wflag'[w] = wflag[w] ]_vars
    /\ [][ \A t \in Tasks :
             handle[t] \in {"value", "exception"} => handle'[t] = handle[t] ]_vars

\* C7 happens: the one worker of a running FIFO pool ran task 1, whose body
\* threw, and then task 2, whose handle holds a value.
C7_Witness ==
    /\ typePool = "Normal"
    /\ nSpawned = 1
    /\ IsRunning
    /\ tstate[1] = "done" /\ handle[1] = "exception"
    /\ tstate[2] = "done" /\ handle[2] = "value"

\* C8: graceful stop completes all work.  On a pool constructed with one
\* thread or more and never resized, when the clearQueue that ends stop(true)
\* has run, the queue is empty, that clearQueue deleted nothing, and every
\* pushed task that no clearQueue() or pop() call took has run once on a
\* worker and its handle holds the outcome of its body.
C8_GracefulStop ==
    (cpc = "stop_threads" /\ isDone /\ ~isStop /\ cn >= 1) =>
        /\ queue = << >>
        /\ \A t \in 1 .. nSubmitted :
              \/ tstate[t] \in {"cleared", "dropped", "called"}
              \/ /\ tstate[t] = "done"
                 /\ runs[t] = 1
                 /\ handle[t] \in {"value", "exception"}

\* C8 happens: stop(true) is about to return on a pool of two threads that
\* were given as many tasks as the bound allows, all of which ran.
C8_Witness ==
    /\ cpc = "stop_threads" /\ isDone /\ ~isStop
    /\ cn = 2
    /\ nSubmitted = MaxFixedTasks
    /\ \A t \in 1 .. nSubmitted : tstate[t] = "done" /\ handle[t] = "value"

\* C9: immediate stop.  From the store of isStop until stop(false) returns,
\* no worker takes a task off the queue: a queued task stays queued or is
\* deleted by stop.  (The caller pushes nothing during its own stop, so the
\* tasks queued in that window are those queued when isStop was stored.)
C9_ImmediateStop ==
    [][ (isStop /\ cpc \in StopPcs) =>
            \A t \in Tasks :
                tstate[t] = "queued" =>
                    tstate'[t] \in {"queued", "discarded", "swept"} ]_vars

\* A resize returns in this step.
ResizeReturns ==
    /\ cpc \in {"resize_grow", "resize_truncate"}
    /\ cpc' = "idle"

\* C10: resize invariant.  When resize(n) returns, size() is n, and every
\* task that was queued when resize was entered is still queued or was popped
\* once, by a worker.
C10_ResizeInvariant ==
    [][ ResizeReturns =>
            /\ Len(threads') = cn
            /\ \A t \in resizeSnap :
                  \/ t \in Queued(typePool, queue')
                  \/ /\ deq'[t] = 1
                     /\ tstate'[t] \in {"held", "running", "done"} ]_vars

\* C10 happens: a shrinking resize has returned on a running pool, leaving
\* one thread, a detached worker, and a task in the queue.
C10_Witness ==
    /\ cpc = "idle"
    /\ IsRunning
    /\ Len(threads) = 1
    /\ \E w \in Wids : wdetached[w]
    /\ queue # << >>

\* C11: idle-count bound.  In every state, 0 <= numIdle() <= size().
C11_IdleBound ==
    /\ 0 <= numWaiting
    /\ numWaiting <= Len(threads)

\* Task t is executing on a worker that a shrinking resize has selected.
InFlightOnExcess(t) ==
    /\ tstate[t] = "running"
    /\ \E w \in Wids : wdetached[w] /\ wflag[w] /\ wfun[w] = t

\* C12: shrink never aborts in-flight work.  A task that is executing on a
\* worker selected by a shrinking resize runs to completion, and its handle
\* then holds the outcome of its body.
C12_ShrinkKeepsInFlight ==
    \A t \in 1 .. MaxTasks :
        InFlightOnExcess(t)
            ~> (tstate[t] = "done" /\ handle[t] \in {"value", "exception"})

\* Task t has started: its body is executing or has ended.
Started(t) == tstate[t] \in {"running", "done"}

\* C13 as stated: execution in non-increasing priority order.  When the body
\* of a task starts, no task of lower priority has started before it.
C13_PriorityExecOrder ==
    [][ \A u \in 1 .. MaxOrderTasks :
          (~Started(u) /\ tstate'[u] = "running") =>
              \A t \in 1 .. nSubmitted :
                  plan[t] < plan[u] => ~Started(t) ]_vars

\* C13, amended: the one worker always takes a task whose priority is at
\* least that of every task queued at that moment, so that tasks which are
\* queued together are executed in non-increasing priority order.
C13_TakesHighestQueued ==
    [][ \A u \in 1 .. MaxOrderTasks :
          (tstate[u] = "queued" /\ tstate'[u] = "held") =>
              \A t \in 1 .. nSubmitted :
                  tstate[t] = "queued" => plan[t] <= plan[u] ]_vars

\* C13 happens: priorities 1, 10, 5 were submitted in that order before the
\* worker took any task, and the worker runs the task of priority 10 while
\* the other two are queued.
C13_Witness ==
    /\ plan = << 1, 10, 5 >>
    /\ tstate[2] = "running"
    /\ tstate[1] = "queued"
    /\ tstate[3] = "queued"

\* isStopped()
IsStopped == isDone \/ isStop

\* C14: stop idempotence and short-circuit.  Whenever a stop flag is set and
\* the caller is between operations, stop(true) can be called and returns,
\* and it can change nothing: no flag, not the queue, not the worker
\* collection, not the idle count, nor any other part of the state.
C14_StopIdempotent ==
    (cpc = "idle" /\ IsStopped) =>
        /\ ENABLED CStop(TRUE)
        /\ ~ ENABLED << CStop(TRUE) >>_vars

\* C14 happens: stop(false) has returned and a task pushed since is in the
\* queue, where a stop(true) has to leave it.
C14_Witness ==
    /\ cpc = "idle"
    /\ isStop /\ ~isDone
    /\ threads = << >>
    /\ nSpawned = 2
    /\ queue # << >>

\* Some call of stop has returned and the caller is not inside another.
StopReturned == IsStopped /\ cpc \notin StopPcs

\* C15: single use.  A stop flag that is set stays set, so isRunning() stays
\* false; when stop returns the queue is empty and size() is 0; and once stop
\* has returned size() stays 0 and a resize(n) changes nothing and starts no
\* thread.
C15_SingleUse ==
    /\ [][ IsStopped => IsStopped' ]_vars
    /\ [][ (cpc = "stop_threads" /\ cpc' = "idle") =>
              (queue' = << >> /\ Len(threads') = 0) ]_vars
    /\ [] ( StopReturned =>
              /\ ~IsRunning
              /\ Len(threads) = 0
              /\ cpc = "idle" =>
                    \A n \in 0 .. MaxThreads : ~ ENABLED << CResize(n) >>_vars )

\* C15 happens: a pool that ran a task and was resized has been stopped, and
\* the caller is free to call resize.
C15_Witness ==
    /\ StopReturned
    /\ cpc = "idle"
    /\ nSpawned = MaxSpawn
    /\ \E t \in Tasks : tstate[t] = "done"

\* C16: no acceptance after stop.  Once a stop flag is set, no submit puts a
\* task into the queue.
C16_NoAcceptAfterStop ==
    [][ IsStopped =>
            /\ Len(queue') <= Len(queue)
            /\ \A t \in Tasks : tstate[t] = "new" => tstate'[t] = "new" ]_vars

\* C17: clearQueue().  From its call to its return, a queued task leaves the
\* queue only by being deleted by clearQueue, so none of the tasks queued at
\* the call is executed afterwards; at the return the queue is empty; and the
\* steps of clearQueue change no worker, flag, idle count or task that has
\* been taken from the queue.  (The caller pushes nothing during its own
\* clearQueue, so the tasks queued in between are those queued at the call.)
C17_ClearQueue ==
    /\ [][ cpc = "clear" =>
             \A t \in Tasks :
                 tstate[t] = "queued" => tstate'[t] \in {"queued", "cleared"} ]_vars
    /\ [][ (cpc = "clear" /\ cpc' = "idle") => queue' = << >> ]_vars
    /\ [][ (cpc = "clear" /\ CClearStep) =>
             /\ UNCHANGED << poolvars, numWaiting, wvars, runs >>
             /\ \A t \in Tasks :
                   tstate[t] # "queued" =>
                       tstate'[t] = tstate[t] /\ handle'[t] = handle[t] ]_vars

\* C18: thread-creation failure.  Whenever the caller is between operations,
\* every slot of the worker collection holds a started thread, so that size()
\* is the number of workers with a thread; and no later resize or stop ends
\* the process.
C18_NotHalfGrown ==
    /\ cpc = "idle" => \A i \in DOMAIN threads : HasThread(threads[i])
    /\ Alive

\* C19: worker termination condition.  A worker returns only with its own
\* flag set, or with the graceful-stop flag set after a pop inside the wait
\* failed; and in a running pool a started worker whose flag is unset has not
\* returned, whatever the bodies of its tasks did.
C19_WorkerTermination ==
    /\ [][ \A w \in Wids :
             (wpc[w] # "stopped" /\ wpc'[w] = "stopped") =>
                 \/ wflag[w]
                 \/ isDone /\ wpc[w] = "woke" /\ wfun[w] = 0 ]_vars
    /\ [] ( \A w \in Wids :
              (IsRunning /\ wpc[w] # "none" /\ ~wflag[w]) => wpc[w] # "stopped" )

\* C19 happens: one worker has returned through its flag after a shrinking
\* resize, another through the graceful stop with its flag unset, and a task
\* body had thrown.
C19_Witness ==
    /\ \E w \in Wids : wpc[w] = "stopped" /\ wflag[w] /\ wdetached[w]
    /\ \E w \in Wids : wpc[w] = "stopped" /\ ~wflag[w]
    /\ isDone /\ ~isStop
    /\ \E t \in Tasks : tstate[t] = "done" /\ handle[t] = "exception"

\* The comparator ranks entry a ahead of entry b, and not b ahead of a: a is
\* the one std::priority_queue gives out first.
RanksAhead(a, b) == Less(b, a) /\ ~Less(a, b)

\* C20: tie-break rule of the comparator.  Of two queued tasks of equal
\* priority the comparator ranks exactly one ahead of the other: the one with
\* the smaller sequence number when the numbers differ by at most half the
\* counter's range, the one with the larger number otherwise.
C20_TieBreak ==
    typePool = "Priority" =>
        \A i, j \in DOMAIN queue :
            (/\ queue[i].priority = queue[j].priority
             /\ queue[i].sequence < queue[j].sequence) =>
                IF queue[j].sequence - queue[i].sequence <= HalfRange
                THEN RanksAhead(queue[i], queue[j])
                ELSE RanksAhead(queue[j], queue[i])

\* C21: sequence counter wraparound.  Every push to the priority queue gives
\* its task the counter's value and leaves the counter one higher modulo its
\* range, 0 after the maximum; so successive pushes get consecutive numbers,
\* with no gap, and no two queued tasks carry the same number.
C21_SequenceWrap ==
    /\ [][ (typePool = "Priority" /\ nSubmitted' = nSubmitted + 1) =>
              /\ queue'[Len(queue')].function = nSubmitted'
              /\ queue'[Len(queue')].sequence = nextSequence
              /\ nextSequence' = (nextSequence + 1) % SeqMod
              /\ nextSequence = SeqMax => nextSequence' = 0 ]_vars
    /\ [] ( typePool = "Priority" =>
              /\ nextSequence \in 0 .. SeqMax
              /\ \A i, j \in DOMAIN queue :
                    queue[i].sequence = queue[j].sequence => i = j )

\* C21 happens: three successive pushes got the last two numbers of the
\* range and then 0.
C21_Witness ==
    /\ typePool = "Priority"
    /\ Len(queue) >= 3
    /\ queue[1].sequence = SeqMax - 1
    /\ queue[2].sequence = SeqMax
    /\ queue[3].sequence = 0
    /\ nextSequence = 1

\* Worker w calls queue->pop in this step, at one of its three call sites.
WorkerPops(w) == wpc[w] \in {"start", "pop", "pred"} /\ wpc'[w] # wpc[w]

\* The positions where the caller takes the pool mutex, for a notification.
NotifyPcs == {"push_notify", "stop_notify", "resize_notify"}

\* The caller's step is a notification under the pool mutex.
CallerNotifies == cpc \in NotifyPcs /\ cpc' # cpc

\* C22 as stated: decoupled locking.  No worker calls pop while it holds the
\* pool mutex, and the caller's steps under the pool mutex leave the queue
\* alone.
C22_DecoupledLocking ==
    [][ /\ \A w \in Wids : WorkerPops(w) => mutexOwner # w
        /\ CallerNotifies => UNCHANGED << queue, nextSequence >> ]_vars

\* C22, amended: a worker calls pop with the pool mutex held in the predicate
\* of its wait and nowhere else; the caller takes the pool mutex, when it is
\* free, for its notifications only, which leave the queue alone; and its
\* push, pop and clearQueue steps never wait for the pool mutex.
C22_PopUnderMutexInWaitOnly ==
    /\ [][ /\ \A w \in Wids :
                WorkerPops(w) => (mutexOwner = w <=> wpc[w] = "pred")
           /\ CallerNotifies =>
                mutexOwner = 0 /\ UNCHANGED << queue, nextSequence >> ]_vars
    /\ [] ( /\ cpc = "idle" => ENABLED CPop /\ ENABLED CPush(1)
            /\ cpc \in {"clear", "stop_clear1", "stop_clear2"} =>
                  ENABLED CClearStep )

\* C22 happens: a worker has popped a task in its wait predicate, the pool
\* mutex held, while the caller that pushed the task has yet to notify.
C22_Witness ==
    /\ cpc = "push_notify"
    /\ \E w \in Wids : wpc[w] = "woke" /\ wfun[w] # 0 /\ mutexOwner = w

\* Worker w is an excess worker: a shrinking resize has set its flag and
\* detached its thread.
Excess(w) == wflag[w] /\ wdetached[w]

\* C23: shrink wake-up.  Every worker selected by a shrinking resize
\* eventually returns, whether it was executing a task, about to wait, or
\* blocked in the wait on an empty queue, and with no further push.
C23_ShrinkWakeup ==
    \A w \in Wids : Excess(w) ~> (wpc[w] = "stopped")

BacklogOfGrowth(t) == cpc = "resize_grow" /\ ci < cn /\ t \in resizeSnap

\* C25: growth drains the backlog.  The first step of a started worker takes
\* a task off the queue if one is queued, with no notification; every task
\* that was queued when a growing resize was entered is eventually executed,
\* with no further push; and it is executed once, whichever worker wins it.
C25_GrowthDrainsBacklog ==
    /\ [][ \A w \in Wids :
             (wpc[w] = "start" /\ wpc'[w] # "start" /\ queue # << >>) =>
                 /\ wpc'[w] = "exec"
                 /\ wfun'[w] \in Queued(typePool, queue)
                 /\ wfun'[w] \notin Queued(typePool, queue') ]_vars
    /\ \A t \in 1 .. MaxTasks :
          BacklogOfGrowth(t) ~> (tstate[t] = "done" /\ runs[t] = 1)
    /\ [] ( \A t \in Tasks : runs[t] <= 1 /\ deq[t] <= 1 )

\* C25 happens: two tasks were queued when a resize to two threads was
\* entered; the resize has one more thread to start, and the worker of the
\* first slot has taken one of the two tasks off the queue.
C25_Witness ==
    /\ cn = 2
    /\ ci = 1
    /\ resizeSnap = {1, 2}
    /\ \E t \in Tasks : BacklogOfGrowth(t) /\ wfun[threads[1]] = t
    /\ wpc[threads[1]] = "exec"
    /\ Len(queue) = 1

\* C26: no pool-owned thread outlives stop.  When stop returns, every thread
\* the pool has started, the workers detached by a shrinking resize included,
\* has returned from its loop: none is executing a task or has a step left
\* that reads the queue, the mutex, the condition variable or the idle count.
C26_NoThreadOutlivesStop ==
    [][ (cpc = "stop_threads" /\ cpc' = "idle") =>
            \A w \in Wids : wpc[w] \in {"none", "stopped"} ]_vars

\* Worker thread w has been started and has not returned.
AliveWorker(w) == wpc[w] \notin {"none", "stopped"}

\* C27: unique worker identity.  No two worker threads that are alive,
\* detached ones included, carry the same ind, so two bodies that execute at
\* the same time never receive the same id.
C27_UniqueWorkerId ==
    \A v, w \in Wids :
        (v # w /\ AliveWorker(v) /\ AliveWorker(w)) => wind[v] # wind[w]

\* The comparator ranks neither of two entries below the other.
Incomparable(a, b) == ~Less(a, b) /\ ~Less(b, a)

\* C28: the comparator is a strict weak ordering.  Over the entries a
\* priority queue holds, operator< is irreflexive, asymmetric and transitive,
\* and incomparability is transitive.
C28_StrictWeakOrder ==
    typePool = "Priority" =>
        \A i, j, k \in DOMAIN queue :
            /\ ~Less(queue[i], queue[i])
            /\ Less(queue[i], queue[j]) => ~Less(queue[j], queue[i])
            /\ (Less(queue[i], queue[j]) /\ Less(queue[j], queue[k]))
                  => Less(queue[i], queue[k])
            /\ (Incomparable(queue[i], queue[j]) /\ Incomparable(queue[j], queue[k]))
                  => Incomparable(queue[i], queue[k])

\* C29: bounded work after a stop signal.  A worker's flag, once set, stays
\* set; a body starts only on a worker that holds a popped task; and a
\* flagged worker that has started a body can only end it, read its flag and
\* return, after which it takes no step.  So a worker starts at most one body
\* after its flag was set, whatever the queue holds.
C29_BoundedWorkAfterFlag ==
    [][ \A w \in Wids :
          /\ (wflag[w] /\ wpc[w] # "none") => wflag'[w]
          /\ (wpc[w] # "running" /\ wpc'[w] = "running") => wpc[w] = "exec"
          /\ (wflag[w] /\ wpc[w] = "running") => wpc'[w] \in {"running", "chkflag"}
          /\ (wflag[w] /\ wpc[w] = "chkflag") => wpc'[w] \in {"chkflag", "stopped"}
          /\ wpc[w] = "stopped" => wpc'[w] = "stopped" ]_vars

\* C29 happens: resize(1) has returned on a pool of two threads; the excess
\* worker, its flag set, holds a task whose body it has yet to start, and
\* another task is queued.
C29_Witness ==
    /\ IsRunning
    /\ cpc = "idle"
    /\ Len(threads) = 1
    /\ queue # << >>
    /\ \E w \in Wids : Excess(w) /\ wpc[w] = "exec" /\ tstate[wfun[w]] = "held"

\* Some thread has a step to take: the caller is inside an operation or
\* inside the queue, or a worker is neither done nor blocked in the wait for
\* work.
Busy ==
    \/ cpc # "idle"
    \/ queueMutex # 0
    \/ \E w \in Wids : wpc[w] \notin {"none", "stopped", "waiting"}

\* The steps that continue what a thread has begun: all but a spurious
\* wake-up and the entry of a new operation by the caller.
Progress ==
    \/ \E w \in Wids :
          \/ WQueueLock(w)
          \/ queueMutex = w /\ (WStart(w) \/ WPop(w) \/ WPred(w))
          \/ WorkerOutsideQueue(w)
    \/ cpc # "idle" /\ CQueueLock
    \/ queueMutex = Caller /\ (CPop \/ CClearStep)
    \/ CRunPopped
    \/ CDropPopped
    \/ CallerOutsideQueue

\* C30: lock ordering and deadlock freedom.  A thread that takes the pool
\* mutex does not hold the queue mutex; the caller inside stop's join holds
\* neither lock; and whenever some thread has a step to take, one of them can
\* take it: the threads are never all blocked on the two locks or on a join.
C30_DeadlockFree ==
    /\ [][ /\ \A w \in Wids :
                (mutexOwner # w /\ mutexOwner' = w) => queueMutex # w
           /\ CallerNotifies => queueMutex # Caller ]_vars
    /\ [] ( /\ cpc = "stop_join" => (queueMutex # Caller /\ mutexOwner # Caller)
            /\ Busy => ENABLED Progress )

\* C30 happens: one worker holds the pool mutex and waits for the queue mutex
\* in its wait predicate, the other holds the queue mutex, and the caller is
\* inside stop's join.
C30_Witness ==
    /\ cpc = "stop_join"
    /\ \E v, w \in Wids :
          /\ mutexOwner = v
          /\ wpc[v] = "pred"
          /\ queueMutex = w
          /\ v # w

\* How a task is recorded that clearQueue() or stop deleted from the queue.
Discards == {"cleared", "discarded", "swept"}

\* C31: discarded tasks release their waiters.  The step in which clearQueue()
\* or stop deletes a queued task turns its pending handle into a broken one,
\* the body not having run; and the handle of a discarded task is never
\* pending afterwards.
C31_DiscardReleasesWaiter ==
    /\ [][ \A t \in Tasks :
             (tstate[t] = "queued" /\ tstate'[t] \in Discards) =>
                 /\ handle[t] = "pending"
                 /\ handle'[t] = "broken"
                 /\ runs'[t] = 0 ]_vars
    /\ [] ( \A t \in Tasks : tstate[t] \in Discards => handle[t] = "broken" )

\* C31 happens: one task was deleted by clearQueue() and another by
\* stop(false), which has returned; both handles are broken.
C31_Witness ==
    /\ cpc = "idle"
    /\ isStop
    /\ \E t, u \in Tasks :
          /\ tstate[t] = "cleared" /\ handle[t] = "broken"
          /\ tstate[u] = "discarded" /\ handle[u] = "broken"

====
